---- MODULE Spec2Model ----
(***************************************************************************)
(* A model of oto2seg (CVVC mode): alias classification (functions.py),    *)
(* boundary derivation and quantization, segment emission and the coverage *)
(* completion pass (oto2seg_cvvc.py).                                      *)
(*                                                                         *)
(* Times.  The source computes with millisecond floats.  The model keeps   *)
(* every time as an integer number of ticks, one tick = 1/4410 ms, so that *)
(* one sample period at 44100 Hz is exactly 100 ticks, one millisecond is  *)
(* 4410 ticks and the midpoint of two whole-millisecond anchors is a whole *)
(* number of ticks.  Arithmetic is exact: the rounding error of IEEE       *)
(* doubles is not modelled.                                                *)
(*                                                                         *)
(* Strings.  An alias is a sequence of one-character strings; a kana       *)
(* character is written as a token such as "<sa>".                         *)
(***************************************************************************)
EXTENDS Integers, Sequences, FiniteSets, TLC

VARIABLES
    q_pc,        \* quantize_boundary harness: "in", "once", "twice"
    q_in,        \* the boundaries handed to quantize_boundary
    q_out,       \* quantize_boundary(q_in)
    q_again,     \* quantize_boundary(q_out)
    c_pc,        \* get_oto_entry_phoneme_info harness: "in", "done"
    c_alias,     \* the alias of the oto entry
    c_ret,       \* the outcome of get_oto_entry_phoneme_info
    hiragana_map,  \* the global dictionary, as loaded from hiragana.json
    d_pc,        \* one-entry harness: "in", "derived", "emitted", "unescaped"
    d_oto,       \* the oto entry
    d_seg,       \* what the try block of the entry gave
    d_files,     \* what generate_articulation_files wrote for the segment
    d_names,     \* the names of the file name, unescaped
    pc,            \* generate_articulation_from_oto: the place in its code
    oto_dict,      \* the clips in dict order, each with its sorted oto_list
    clip_idx,      \* the clip the outer loop is at
    unit_idx,      \* the entry generate_articulation_segment_info is at
    seg_info_list, \* the SegmentInfo list of the current clip
    seg_idx,       \* the segment the emission loop is at
    heap,          \* the lists of all SegmentInfo objects
    cvvc_map,      \* key -> [seg_info, wav_file]
    vc_miss_list,  \* the missing VC names
    vr_miss_list,  \* the missing VR vowels
    vc_idx,        \* the place in vc_miss_list
    vr_idx,        \* the place in vr_miss_list
    out,           \* what was printed and written, in order
    failure        \* the exception that ended the run, or "none"

qvars == <<q_pc, q_in, q_out, q_again>>

cvars == <<c_pc, c_alias, c_ret, hiragana_map>>

pvars == <<pc, oto_dict, clip_idx, unit_idx, seg_info_list, seg_idx, heap,
           cvvc_map, vc_miss_list, vr_miss_list, vc_idx, vr_idx, out, failure>>

dvars == <<d_pc, d_oto, d_seg, d_files, d_names>>

vars == <<qvars, cvars, pvars, dvars>>

(***************************************************************************)
(* Time units                                                              *)
(***************************************************************************)
sample_rate == 44100

\* the ticks of one millisecond: a sample period is 100 ticks
TicksPerMs == sample_rate \div 10

\* one sample period, 1000 / sample_rate ms, in ticks
TicksPerSample == (1000 * TicksPerMs) \div sample_rate

Ms(n) == n * TicksPerMs

min_length == 10

(***************************************************************************)
(* quantize_boundary                                                       *)
(***************************************************************************)
\* math.floor(t / 1000 * sample_rate) * 1000 / sample_rate
FloorSample(t) == (t \div TicksPerSample) * TicksPerSample

\* math.ceil(t / 1000 * sample_rate) * 1000 / sample_rate
CeilSample(t) == 0 - (((0 - t) \div TicksPerSample) * TicksPerSample)

\* first loop: the first boundary is rounded down, the last one (when it is
\* not also the first) up, the interior ones down
RoundBoundaries(b) ==
    [i \in 1..Len(b) |->
        IF i = 1 THEN FloorSample(b[i])
        ELSE IF i = Len(b) THEN CeilSample(b[i])
        ELSE FloorSample(b[i])]

\* one iteration of the second loop that moves the boundary back by twice
\* min_length (a variant of the code)
PullBackFurther(b, i) ==
    IF b[i] - b[i - 1] < Ms(min_length)
    THEN [b EXCEPT ![i - 1] = b[i] - 2 * Ms(min_length)]
    ELSE b

\* one iteration of the second loop, at (1-based) index i
PullBack(b, i) ==
    IF b[i] - b[i - 1] < Ms(min_length)
    THEN [b EXCEPT ![i - 1] = b[i] - Ms(min_length)]
    ELSE b

\* the second loop, left to right from (1-based) index i: iteration i may
\* move boundary i - 1, which iteration i - 1 has already compared with its
\* own predecessor
RECURSIVE EnforceMinLengthFrom(_, _)
EnforceMinLengthFrom(b, i) ==
    IF i > Len(b) THEN b ELSE EnforceMinLengthFrom(PullBack(b, i), i + 1)

quantize_boundary(boundaries) ==
    EnforceMinLengthFrom(RoundBoundaries(boundaries), 2)

(***************************************************************************)
(* Harness of quantize_boundary: the input is any non-decreasing sequence  *)
(* of whole-millisecond boundaries.                                        *)
(***************************************************************************)
MaxLen == 3
MaxMs == 16

NonDecreasing(b) == \A i \in 1..(Len(b) - 1) : b[i] <= b[i + 1]

MsSeqs(n) == [1..n -> 0..MaxMs]

QIdle ==
    /\ q_pc = "off"
    /\ q_in = <<>>
    /\ q_out = <<>>
    /\ q_again = <<>>

QInit ==
    /\ q_pc = "in"
    /\ \E n \in 2..MaxLen : \E s \in MsSeqs(n) :
           /\ NonDecreasing(s)
           /\ q_in = [i \in 1..n |-> Ms(s[i])]
    /\ q_out = <<>>
    /\ q_again = <<>>

Quantize ==
    /\ q_pc = "in"
    /\ q_out' = quantize_boundary(q_in)
    /\ q_pc' = "once"
    /\ UNCHANGED <<q_in, q_again, cvars, pvars, dvars>>

Requantize ==
    /\ q_pc = "once"
    /\ q_again' = quantize_boundary(q_out)
    /\ q_pc' = "twice"
    /\ UNCHANGED <<q_in, q_out, cvars, pvars, dvars>>

QNext == Quantize \/ Requantize

\* C1: for every non-decreasing input of at least two boundaries, adjacent
\* boundaries of quantize_boundary's output are at least min_length (10 ms,
\* 441 samples) apart.
C1_AdjacentGapsAtLeastMin ==
    q_pc # "in" =>
        \A i \in 1..(Len(q_out) - 1) : q_out[i + 1] - q_out[i] >= Ms(min_length)

\* C2: quantize_boundary applied to a sequence it returned gives back the
\* same sequence.
C2_Idempotent ==
    q_pc = "twice" => q_again = q_out

\* C15: the output of quantize_boundary for a non-decreasing input is
\* non-decreasing.
C15_OutputNonDecreasing ==
    q_pc \in {"once", "twice"} => NonDecreasing(q_out)

\* quantize_boundary has moved two adjacent boundaries of a three-boundary
\* input back, the second after the first
C15_TwoBoundariesPulledBack ==
    /\ q_pc = "once"
    /\ Len(q_in) = 3
    /\ q_out[1] < RoundBoundaries(q_in)[1]
    /\ q_out[2] < RoundBoundaries(q_in)[2]

(***************************************************************************)
(* Characters and the phoneme dictionary                                   *)
(***************************************************************************)
Digits == {"0", "1", "2", "3", "4", "5", "6", "7", "8", "9"}

LatinLetters ==
    {"a", "b", "c", "d", "e", "f", "g", "h", "i", "j", "k", "l", "m", "n",
     "o", "p", "q", "r", "s", "t", "u", "v", "w", "x", "y", "z",
     "A", "B", "C", "D", "E", "F", "G", "H", "I", "J", "K", "L", "M", "N",
     "O", "P", "Q", "R", "S", "T", "U", "V", "W", "X", "Y", "Z"}

\* the kana the model knows of the range [ぁ-ゔァ-・]
KanaRange == {"<a>", "<n>", "<ka>", "<sa>", "<ki>"}

\* the kana the model knows of [あいうえおんアイウエオン]
KanaVowels == {"<a>", "<n>"}

\* [aiueonN]
VowelNnChars == {"a", "i", "u", "e", "o", "n", "N"}

\* [aiueoN]
VowelNChars == {"a", "i", "u", "e", "o", "N"}

\* [aiueo]
VowelChars == {"a", "i", "u", "e", "o"}

\* an entry of hiragana.json after load ("phoneme" already split on spaces)
Item(kana, romaji, phoneme) == [kana |-> kana, romaji |-> romaji, phoneme |-> phoneme]

\* hiragana.json after load: kana, romaji and the atoms of each entry, in
\* table order.  A consonant-only entry has no kana of the kana range.
hiragana_json ==
    << Item(<<"<a>">>,  <<"a">>,      <<"a">>),
       Item(<<"<n>">>,  <<"n">>,      <<"N\\">>),
       Item(<<"<ka>">>, <<"k", "a">>, <<"k", "a">>),
       Item(<<"<sa>">>, <<"s", "a">>, <<"s", "a">>),
       Item(<<"(k)">>,  <<"k">>,      <<"k">>),
       Item(<<"(ky)">>, <<"k", "y">>, <<"k'">>),
       Item(<<"(m)">>,  <<"m">>,      <<"m">>),
       Item(<<"<na>">>, <<"n", "a">>, <<"n", "a">>),
       Item(<<"(d)">>,  <<"d">>,      <<"d">>),
       Item(<<"(dy)">>, <<"d", "y">>, <<"d'">>),
       Item(<<"(t)">>,  <<"t">>,      <<"t">>),
       Item(<<"(ty)">>, <<"t", "y">>, <<"t'">>),
       Item(<<"(r)">>,  <<"r">>,      <<"4">>),
       Item(<<"(ry)">>, <<"r", "y">>, <<"4'">>),
       Item(<<"(z)">>,  <<"z">>,      <<"dz">>),
       Item(<<"(j)">>,  <<"j">>,      <<"dZ">>),
       Item(<<"(ts)">>, <<"t", "s">>, <<"ts">>),
       Item(<<"(ch)">>, <<"c", "h">>, <<"tS">>),
       Item(<<"(my)">>, <<"m", "y">>, <<"m'">>),
       Item(<<"(p)">>,  <<"p">>,      <<"p">>),
       Item(<<"(py)">>, <<"p", "y">>, <<"p'">>),
       Item(<<"(b)">>,  <<"b">>,      <<"b">>),
       Item(<<"(by)">>, <<"b", "y">>, <<"b'">>),
       Item(<<"(g)">>,  <<"g">>,      <<"g">>),
       Item(<<"(gy)">>, <<"g", "y">>, <<"g'">>),
       Item(<<"(ny)">>, <<"n", "y">>, <<"J">>),
       Item(<<"(s)">>,  <<"s">>,      <<"s">>) >>

NoInfo == [kana |-> <<>>, romaji |-> <<>>, phoneme |-> <<>>]

\* the place of the first entry of hiragana_map whose field f equals key,
\* or 0
FirstIndex(f, key) ==
    LET hits == { i \in 1..Len(hiragana_map) : hiragana_map[i][f] = key }
    IN  IF hits = {} THEN 0
        ELSE CHOOSE i \in hits : \A j \in hits : i <= j

\* the first entry of hiragana_map whose field f equals key, or None
FirstEntry(f, key) ==
    IF FirstIndex(f, key) = 0 THEN NoInfo ELSE hiragana_map[FirstIndex(f, key)]

get_hiragana_info(hiragana) == FirstEntry("kana", hiragana)

get_romaji_info(romaji) == FirstEntry("romaji", romaji)

IsNone(info) == info = NoInfo

xsampa_is_vowel(xsampa) == xsampa \in {"a", "i", "M", "e", "o", "N\\"}

(***************************************************************************)
(* String helpers                                                          *)
(***************************************************************************)
AllIn(s, S) == \A i \in 1..Len(s) : s[i] \in S

\* str.replace(" ", "")
RemoveSpaces(s) == SelectSeq(s, LAMBDA c : c # " ")

RECURSIVE LStrip(_)
LStrip(s) == IF Len(s) > 0 /\ s[1] = " " THEN LStrip(Tail(s)) ELSE s

RECURSIVE RStrip(_)
RStrip(s) ==
    IF Len(s) > 0 /\ s[Len(s)] = " " THEN RStrip(SubSeq(s, 1, Len(s) - 1)) ELSE s

\* str.strip()
Strip(s) == RStrip(LStrip(s))

\* re.sub(r"[0-9]+$", "", s)
RECURSIVE StripTrailingDigits(_)
StripTrailingDigits(s) ==
    IF Len(s) > 0 /\ s[Len(s)] \in Digits
    THEN StripTrailingDigits(SubSeq(s, 1, Len(s) - 1))
    ELSE s

(***************************************************************************)
(* get_oto_entry_phoneme_info                                              *)
(*                                                                         *)
(* The outcome is a record: status "ok" (ret returned with its type and    *)
(* phoneme_list set), "raise" (an exception leaves the function), "none"   *)
(* (None is returned) or "partial" (ret is returned with neither type nor  *)
(* phoneme_list set).  is_alternative is TRUE when the attribute was set.  *)
(***************************************************************************)
Outcome(st, ty, pl) == [status |-> st, type |-> ty, phoneme_list |-> pl]

Raised == Outcome("raise", "", <<>>)

ReturnedNone == Outcome("none", "", <<>>)

ReturnedUnset == Outcome("partial", "", <<>>)

Returned(ty, pl) == Outcome("ok", ty, pl)

\* re.match(r"[0-9]+$", s): re.match anchors at the start of s
MatchesDigitRun(s) == Len(s) >= 1 /\ AllIn(s, Digits)

\* ^([kana range]+)$
MatchesKana(s) == Len(s) >= 1 /\ AllIn(s, KanaRange)

\* ^([aiueoN]) ([aiueoN]|[kana vowels])$
MatchesVV(s) ==
    /\ Len(s) = 3
    /\ s[1] \in VowelNChars
    /\ s[2] = " "
    /\ s[3] \in VowelNChars \cup KanaVowels

\* ^n ([kana vowels])$
MatchesNV(s) == Len(s) = 3 /\ s[1] = "n" /\ s[2] = " " /\ s[3] \in KanaVowels

\* ^([aiueoN]) ([a-zA-Z]+[aiueo]|[kana range])$
MatchesVCV(s) ==
    /\ Len(s) >= 3
    /\ s[1] \in VowelNChars
    /\ s[2] = " "
    /\ \/ Len(s) = 3 /\ s[3] \in KanaRange
       \/ /\ Len(s) >= 4
          /\ AllIn(SubSeq(s, 3, Len(s) - 1), LatinLetters)
          /\ s[Len(s)] \in VowelChars

\* ^([aiueonN]) ([a-zA-Z]+)$ and not ^n ([aiueo])$
MatchesVC(s) ==
    /\ Len(s) >= 3
    /\ s[1] \in VowelNnChars
    /\ s[2] = " "
    /\ AllIn(SubSeq(s, 3, Len(s)), LatinLetters)
    /\ ~(Len(s) = 3 /\ s[1] = "n" /\ s[3] \in VowelChars)

\* ^[a-zA-Z ]+$
MatchesLatinOrSpace(s) == Len(s) >= 1 /\ AllIn(s, LatinLetters \cup {" "})

\* ^([a-zA-Z ]+ ?[aiueonN]|[kana range]+)$
MatchesCV(s) ==
    \/ /\ Len(s) >= 2
       /\ AllIn(SubSeq(s, 1, Len(s) - 1), LatinLetters \cup {" "})
       /\ s[Len(s)] \in VowelNnChars
    \/ MatchesKana(s)

\* the "N variants" table of the V-C branch
NasalVariant(vowel_phoneme, consonant_phoneme) ==
    IF vowel_phoneme # "N\\" THEN vowel_phoneme
    ELSE IF consonant_phoneme \in
              {"n", "d", "d'", "t", "t'", "4", "4'", "dz", "dZ", "ts", "tS"}
         THEN "n"
    ELSE IF consonant_phoneme \in {"m", "m'", "p", "p'", "b", "b'"} THEN "m"
    ELSE IF consonant_phoneme \in {"g", "k"} THEN "N"
    ELSE IF consonant_phoneme = "J" THEN "J"
    ELSE IF consonant_phoneme \in {"g'", "k'"} THEN "N'"
    ELSE vowel_phoneme

\* the split of the R-x branches without "rcv": an entry of two atoms is
\* taken by its first (a variant of the code)
InitialTypeWithoutRcv(info) ==
    IF xsampa_is_vowel(info.phoneme[1]) THEN "rv" ELSE "rc"

\* "R-C or R-V" / "rcv" split of the R-x branches
InitialType(info) ==
    IF Len(info.phoneme) = 1
    THEN (IF xsampa_is_vowel(info.phoneme[1]) THEN "rv" ELSE "rc")
    ELSE "rcv"

\* the branch taken after a leading "-"
ClassifyInitial(rest) ==
    IF MatchesKana(rest)
    THEN LET phoneme_info == get_hiragana_info(RemoveSpaces(rest))
         IN  IF IsNone(phoneme_info) THEN Raised
             ELSE Returned(InitialType(phoneme_info), phoneme_info.phoneme)
    ELSE LET phoneme_info == get_romaji_info(RemoveSpaces(rest))
         IN  IF IsNone(phoneme_info) THEN ReturnedNone
             ELSE IF Len(phoneme_info.phoneme) \in {1, 2}
                  THEN Returned(InitialType(phoneme_info), phoneme_info.phoneme)
             ELSE Raised

\* the branch taken after a trailing "-"
ClassifyFinal(rest) ==
    IF Len(rest) = 1 /\ rest[1] \in VowelNnChars
    THEN LET phoneme_info == get_romaji_info(RemoveSpaces(rest))
         IN  IF IsNone(phoneme_info) THEN Raised
             ELSE IF Len(phoneme_info.phoneme) = 1
                  THEN Returned("vr", phoneme_info.phoneme)
             ELSE Raised
    ELSE Raised

ClassifyVV(s) ==
    LET first_vowel_info  == get_romaji_info(<<s[1]>>)
        second_vowel_info == IF s[3] \in VowelNChars
                             THEN get_romaji_info(<<s[3]>>)
                             ELSE get_hiragana_info(<<s[3]>>)
    IN  IF IsNone(first_vowel_info) \/ IsNone(second_vowel_info) THEN Raised
        ELSE Returned("vv", first_vowel_info.phoneme \o second_vowel_info.phoneme)

ClassifyNV(s) ==
    LET n_info     == get_hiragana_info(<<"<n>">>)
        vowel_info == get_hiragana_info(<<s[3]>>)
    IN  IF IsNone(n_info) \/ IsNone(vowel_info) THEN Raised
        ELSE Returned("vv", n_info.phoneme \o vowel_info.phoneme)

ClassifyVC(s) ==
    LET vowel_info     == get_romaji_info(<<s[1]>>)
        consonant_info == get_romaji_info(SubSeq(s, 3, Len(s)))
    IN  IF IsNone(vowel_info) \/ IsNone(consonant_info) THEN Raised
        ELSE Returned("vc",
                 <<NasalVariant(vowel_info.phoneme[1], consonant_info.phoneme[1])>>
                     \o consonant_info.phoneme)

ClassifyCV(s) ==
    LET phoneme_info == IF MatchesLatinOrSpace(s)
                        THEN get_romaji_info(RemoveSpaces(s))
                        ELSE get_hiragana_info(RemoveSpaces(s))
    IN  IF IsNone(phoneme_info) THEN Raised
        ELSE Returned("cv", phoneme_info.phoneme)

\* the if / elif chain on item_alias, from "if item_alias[0] == '-'" on
ClassifyAlias(item_alias) ==
    IF Len(item_alias) = 0 THEN Raised      \* item_alias[0]: IndexError
    ELSE IF item_alias[1] = "-" THEN ClassifyInitial(Strip(Tail(item_alias)))
    ELSE IF item_alias[Len(item_alias)] = "-"
         THEN ClassifyFinal(Strip(SubSeq(item_alias, 1, Len(item_alias) - 1)))
    ELSE IF MatchesVV(item_alias) THEN ClassifyVV(item_alias)
    ELSE IF MatchesNV(item_alias) THEN ClassifyNV(item_alias)
    ELSE IF MatchesVCV(item_alias) THEN ReturnedUnset    \* pass # TODO
    ELSE IF MatchesVC(item_alias) THEN ClassifyVC(item_alias)
    ELSE IF MatchesCV(item_alias) THEN ClassifyCV(item_alias)
    ELSE Raised

\* the "Alternate phoneme" test of the alias
IsAlternateAlias(alias) == MatchesDigitRun(alias)

\* the item_alias the if / elif chain is entered with
ItemAlias(alias) == IF IsAlternateAlias(alias) THEN StripTrailingDigits(alias) ELSE alias

\* the chain reaches the V-C branch
TakesVCBranch(item_alias) ==
    /\ Len(item_alias) > 0
    /\ item_alias[1] # "-"
    /\ item_alias[Len(item_alias)] # "-"
    /\ ~MatchesVV(item_alias)
    /\ ~MatchesNV(item_alias)
    /\ ~MatchesVCV(item_alias)
    /\ MatchesVC(item_alias)

\* the dict that "vowel_info = vowel_info" would leave in vowel_info: the
\* item of hiragana_map itself (a variant of the code)
dict_same(place) == place

\* vowel_info.copy(): a new dict, which is no item of hiragana_map (place 0)
dict_copy(place) == 0

\* info["phoneme"] = phoneme, for the dict at a place of map or a new dict
SetPhoneme(map, place, phoneme) ==
    IF place = 0 THEN map ELSE [map EXCEPT ![place].phoneme = phoneme]

\* hiragana_map after the V-C branch: vowel_info["phoneme"] is assigned
\* after vowel_info was replaced by its copy
MapAfterVC(s) ==
    LET vowel     == FirstIndex("romaji", <<s[1]>>)
        consonant == FirstIndex("romaji", SubSeq(s, 3, Len(s)))
    IN  IF vowel = 0 \/ consonant = 0 THEN hiragana_map
        ELSE SetPhoneme(hiragana_map, dict_copy(vowel),
                 <<NasalVariant(hiragana_map[vowel].phoneme[1],
                                hiragana_map[consonant].phoneme[1])>>)

\* hiragana_map after get_oto_entry_phoneme_info: no other branch assigns
\* to an item
MapAfterClassify(alias) ==
    IF TakesVCBranch(ItemAlias(alias)) THEN MapAfterVC(ItemAlias(alias)) ELSE hiragana_map

get_oto_entry_phoneme_info(alias) ==
    LET is_alt     == IsAlternateAlias(alias)
        item_alias == IF is_alt THEN StripTrailingDigits(alias) ELSE alias
        r          == ClassifyAlias(item_alias)
    IN  [status |-> r.status, type |-> r.type, phoneme_list |-> r.phoneme_list,
         is_alternative |-> is_alt]

(***************************************************************************)
(* phoneme.py: the inventory tables                                        *)
(***************************************************************************)
plosive_consonant_list == <<"k", "k'", "g", "g'", "t", "d", "p", "b">>

unvoiced_consonant_list == <<"k", "k'", "s", "t", "p">>

\* each group lists phonetically related atoms, in table order
vowel_variant_list == << <<"N\\", "N", "N'">> >>

consonant_variant_list == << <<"k", "k'">> >>

\* the required VC keys (a vowel x consonant grid), each "v c" as <<v, c>>
vc_list ==
    << <<"a", "k">>, <<"a", "k'">>, <<"N", "k">>, <<"N", "k'">>,
       <<"N'", "k">>, <<"N'", "k'">> >>

\* the required VR vowels
vr_list == <<"a", "N\\", "N">>

InList(x, list) == \E i \in 1..Len(list) : list[i] = x

(***************************************************************************)
(* generate_articulation_segment_info: one oto entry                       *)
(*                                                                         *)
(* An OtoInfo is a record [wav_file, alias, offset, consonant, cutoff,     *)
(* preutterance, overlap], its anchors absolute, in ticks.  The segment    *)
(* built for it is given here as a value: wav_offset, wav_cutoff, the      *)
(* phoneme_list rows [name, start, end] and the articulation segments      *)
(* [type, phonemes, boundaries].                                           *)
(***************************************************************************)
Row(name, start, end) == [name |-> name, start |-> start, end |-> end]

ArtSeg(type, phonemes, boundaries) ==
    [type |-> type, phonemes |-> phonemes, boundaries |-> quantize_boundary(boundaries)]

SegValue(wav_offset, wav_cutoff, phoneme_list, art_seg_list) ==
    [wav_offset |-> wav_offset, wav_cutoff |-> wav_cutoff,
     phoneme_list |-> phoneme_list, art_seg_list |-> art_seg_list]

\* consonant_start of the "rc" branch
RcConsonantStart(o, atom) ==
    IF InList(atom, plosive_consonant_list) THEN o.consonant ELSE o.offset

\* consonant_start of the "cv" branch without its midpoint case (a variant
\* of the code)
CvConsonantStartAtOffset(o, consonant) ==
    IF InList(consonant, plosive_consonant_list) THEN o.overlap ELSE o.offset

\* consonant_start of the "cv" branch
CvConsonantStart(o, consonant) ==
    IF InList(consonant, plosive_consonant_list) THEN o.overlap
    ELSE IF o.overlap > o.offset THEN o.offset + ((o.overlap - o.offset) \div 2)
    ELSE o.offset

\* consonant_end of the "vc" branch
VcConsonantEnd(o) == o.consonant + ((o.cutoff - o.consonant) \div 2)

\* the body of the try block for a classified entry e of type e.type with
\* atoms p; reading p[2] of a one-atom list raises IndexError
SegmentOf(o, e) ==
    LET p == e.phoneme_list
    IN  CASE e.type = "rcv" ->
               SegValue(o.offset, o.preutterance,
                   << Row("Sil", o.offset - Ms(20), o.offset),
                      Row(p[1], o.offset, o.preutterance) >>,
                   << ArtSeg("rc", <<"Sil", p[1]>>,
                          <<o.offset - Ms(20), o.offset, o.overlap>>) >>)
          [] e.type = "rv" ->
               SegValue(o.offset, o.cutoff,
                   << Row("Sil", o.preutterance - Ms(20), o.preutterance),
                      Row(p[1], o.preutterance, o.cutoff) >>,
                   << ArtSeg("rv", <<"Sil", p[1]>>,
                          <<o.preutterance - Ms(20), o.preutterance, o.consonant>>) >>)
          [] e.type = "rc" ->
               LET consonant_start == RcConsonantStart(o, p[1])
               IN  SegValue(o.offset, o.cutoff,
                       << Row("Sil", consonant_start - Ms(20), consonant_start),
                          Row(p[1], consonant_start, o.cutoff) >>,
                       << ArtSeg("rc", <<"Sil", p[1]>>,
                              <<consonant_start - Ms(20), consonant_start, o.cutoff>>) >>)
          [] e.type = "vv" ->
               SegValue(o.offset, o.cutoff,
                   << Row(p[1], o.offset, o.preutterance),
                      Row(p[2], o.preutterance, o.consonant) >>,
                   << ArtSeg("vv", <<p[1], p[2]>>,
                          <<o.offset, o.preutterance, o.consonant>>) >>)
          [] e.type = "cv" ->
               LET consonant_start == CvConsonantStart(o, p[1])
               IN  SegValue(o.offset, o.cutoff,
                       << Row(p[1], consonant_start, o.preutterance),
                          Row(p[2], o.preutterance, o.consonant) >>,
                       << ArtSeg("cv", <<p[1], p[2]>>,
                              <<consonant_start, o.preutterance, o.consonant>>) >>)
          [] e.type = "vc" ->
               LET consonant_end == VcConsonantEnd(o)
               IN  SegValue(o.offset, o.cutoff,
                       << Row(p[1], o.offset, o.preutterance),
                          Row(p[2], o.preutterance, consonant_end) >>,
                       << ArtSeg("vc", <<p[1], p[2]>>,
                              <<o.offset, o.preutterance, consonant_end>>) >>)
          [] e.type = "vr" ->
               SegValue(o.offset, o.cutoff,
                   << Row(p[1], o.offset, o.preutterance),
                      Row("Sil", o.preutterance, o.preutterance + Ms(20)) >>,
                   << ArtSeg("vr", <<p[1], "Sil">>,
                          <<o.overlap, o.preutterance, o.preutterance + Ms(20)>>) >>)

\* whether the try block of one entry raises: the classifier raised, or it
\* returned None or a ret without type (reading .type raises
\* AttributeError), or the branch reads an atom the list does not have
EntryRaises(o) ==
    LET e == get_oto_entry_phoneme_info(o.alias)
    IN  \/ e.status # "ok"
        \/ e.type \notin {"rcv", "rv", "rc", "vv", "cv", "vc", "vr"}
        \/ e.type \in {"vv", "cv", "vc"} /\ Len(e.phoneme_list) < 2

\* the SegmentInfo of an entry whose try block does not raise
EntrySegment(o) == SegmentOf(o, get_oto_entry_phoneme_info(o.alias))

(***************************************************************************)
(* SegmentInfo objects                                                     *)
(*                                                                         *)
(* The inner lists of a SegmentInfo are mutable and may be shared, so they *)
(* live in a heap: a sequence of cells, a reference being an index.  A     *)
(* cell is a phoneme_list row [name, start, end], the "phonemes" list of   *)
(* an articulation segment, or its "boundaries" list.  A SegmentInfo holds *)
(* its scalar fields and the references of its lists.                      *)
(***************************************************************************)
RowCell(row) == [kind |-> "row", name |-> row.name, start |-> row.start, end |-> row.end]

AtomsCell(atoms) == [kind |-> "atoms", atoms |-> atoms]

BoundsCell(times) == [kind |-> "bounds", times |-> times]

\* a SegmentInfo with fresh lists holding the value v, allocated after h
NewSegment(h, v) ==
    LET n == Len(v.phoneme_list)
        m == Len(v.art_seg_list)
        rows  == [i \in 1..n |-> RowCell(v.phoneme_list[i])]
        lists == [j \in 1..(2 * m) |->
                     IF j % 2 = 1
                     THEN AtomsCell(v.art_seg_list[(j + 1) \div 2].phonemes)
                     ELSE BoundsCell(v.art_seg_list[j \div 2].boundaries)]
    IN  [heap |-> h \o rows \o lists,
         seg  |-> [wav_offset   |-> v.wav_offset,
                   wav_cutoff   |-> v.wav_cutoff,
                   phoneme_list |-> [i \in 1..n |-> Len(h) + i],
                   art_seg_list |-> [k \in 1..m |->
                       [type       |-> v.art_seg_list[k].type,
                        phonemes   |-> Len(h) + n + 2 * k - 1,
                        boundaries |-> Len(h) + n + 2 * k]]]]

\* the value a SegmentInfo holds in heap h
Deref(h, seg) ==
    [wav_offset   |-> seg.wav_offset,
     wav_cutoff   |-> seg.wav_cutoff,
     phoneme_list |-> [i \in 1..Len(seg.phoneme_list) |->
                          Row(h[seg.phoneme_list[i]].name,
                              h[seg.phoneme_list[i]].start,
                              h[seg.phoneme_list[i]].end)],
     art_seg_list |-> [k \in 1..Len(seg.art_seg_list) |->
                          [type       |-> seg.art_seg_list[k].type,
                           phonemes   |-> h[seg.art_seg_list[k].phonemes].atoms,
                           boundaries |-> h[seg.art_seg_list[k].boundaries].times]]]

\* a copy that shares the lists of the original (a variant of the code)
ShallowCopy(h, seg) == [heap |-> h, seg |-> seg]

\* SegmentInfo.copy: every row, every phonemes list and every boundaries
\* list is copied into a new list
copy(h, seg) == NewSegment(h, Deref(h, seg))

\* list.index
IndexOf(list, x) == CHOOSE i \in 1..Len(list) : list[i] = x /\ \A j \in 1..(i - 1) : list[j] # x

\* a replace_phoneme that keeps every name (a variant of the code)
KeepName(name, old_phonemes, new_phonemes) == name

Relabel(name, old_phonemes, new_phonemes) ==
    IF InList(name, old_phonemes)
    THEN new_phonemes[IndexOf(old_phonemes, name)]
    ELSE name

\* SegmentInfo.replace_phoneme: the copy is relabelled in place
replace_phoneme(h, seg, old_phonemes, new_phonemes) ==
    LET c        == copy(h, seg)
        rowrefs  == { c.seg.phoneme_list[i] : i \in 1..Len(c.seg.phoneme_list) }
        atomrefs == { c.seg.art_seg_list[k].phonemes : k \in 1..Len(c.seg.art_seg_list) }
    IN  [heap |-> [r \in 1..Len(c.heap) |->
                      IF r \in rowrefs
                      THEN [c.heap[r] EXCEPT
                               !.name = Relabel(@, old_phonemes, new_phonemes)]
                      ELSE IF r \in atomrefs
                      THEN [c.heap[r] EXCEPT
                               !.atoms = [i \in 1..Len(@) |->
                                             Relabel(@[i], old_phonemes, new_phonemes)]]
                      ELSE c.heap[r]],
         seg  |-> c.seg]

(***************************************************************************)
(* File names                                                              *)
(***************************************************************************)
UpperLetters ==
    <<"A", "B", "C", "D", "E", "F", "G", "H", "I", "J", "K", "L", "M",
      "N", "O", "P", "Q", "R", "S", "T", "U", "V", "W", "X", "Y", "Z">>

LowerLetters ==
    <<"a", "b", "c", "d", "e", "f", "g", "h", "i", "j", "k", "l", "m",
      "n", "o", "p", "q", "r", "s", "t", "u", "v", "w", "x", "y", "z">>

\* the characters of an atom name
AtomChars(atom) ==
    CASE atom = "Sil"  -> <<"S", "i", "l">>
      [] atom = "N\\"  -> <<"N", "\\">>
      [] atom = "N'"   -> <<"N", "'">>
      [] atom = "k'"   -> <<"k", "'">>
      [] atom = "g'"   -> <<"g", "'">>
      [] atom = "d'"   -> <<"d", "'">>
      [] atom = "t'"   -> <<"t", "'">>
      [] atom = "4'"   -> <<"4", "'">>
      [] atom = "m'"   -> <<"m", "'">>
      [] atom = "p'"   -> <<"p", "'">>
      [] atom = "b'"   -> <<"b", "'">>
      [] atom = "dz"   -> <<"d", "z">>
      [] atom = "dZ"   -> <<"d", "Z">>
      [] atom = "ts"   -> <<"t", "s">>
      [] atom = "tS"   -> <<"t", "S">>
      [] OTHER         -> <<atom>>

\* str.replace("Sil", "sil")
RECURSIVE ReplaceSil(_)
ReplaceSil(cs) ==
    IF Len(cs) = 0 THEN <<>>
    ELSE IF Len(cs) >= 3 /\ SubSeq(cs, 1, 3) = <<"S", "i", "l">>
         THEN <<"s", "i", "l">> \o ReplaceSil(SubSeq(cs, 4, Len(cs)))
    ELSE <<Head(cs)>> \o ReplaceSil(Tail(cs))

\* the chain of single-character replace calls
EscapeChar(c) ==
    CASE c = "\\" -> "-"
      [] c = "/"  -> "~"
      [] c = "?"  -> "!"
      [] c = ":"  -> ";"
      [] c = "<"  -> "("
      [] c = ">"  -> ")"
      [] OTHER    -> c

\* re.sub(r"([A-Z])", lower + "#")
RECURSIVE MarkUpper(_)
MarkUpper(cs) ==
    IF Len(cs) = 0 THEN <<>>
    ELSE (IF InList(Head(cs), UpperLetters)
          THEN <<LowerLetters[IndexOf(UpperLetters, Head(cs))], "#">>
          ELSE <<Head(cs)>>) \o MarkUpper(Tail(cs))

escape_xsampa(xsampa) ==
    LET a == ReplaceSil(xsampa)
        b == [i \in 1..Len(a) |-> EscapeChar(a[i])]
    IN  MarkUpper(b)

\* re.sub(r"([a-z])#", upper)
RECURSIVE UnmarkUpper(_)
UnmarkUpper(cs) ==
    IF Len(cs) = 0 THEN <<>>
    ELSE IF Len(cs) >= 2 /\ InList(cs[1], LowerLetters) /\ cs[2] = "#"
         THEN <<UpperLetters[IndexOf(LowerLetters, cs[1])]>>
                  \o UnmarkUpper(SubSeq(cs, 3, Len(cs)))
    ELSE <<Head(cs)>> \o UnmarkUpper(Tail(cs))

\* the chain of single-character replace calls of unescape_xsampa
UnescapeChar(c) ==
    CASE c = "-" -> "\\"
      [] c = "~" -> "/"
      [] c = "!" -> "?"
      [] c = ";" -> ":"
      [] c = "(" -> "<"
      [] c = ")" -> ">"
      [] OTHER   -> c

unescape_xsampa(xsampa) ==
    LET a == UnmarkUpper(xsampa)
    IN  [i \in 1..Len(a) |-> UnescapeChar(a[i])]

\* the name is prefix + "_".join(phonemes): given as the prefix without its
\* "_" and the escaped names, no name holding a "_"
get_segment_file_name(v) ==
    LET arts == v.art_seg_list
        prefix == IF Len(arts) = 2 /\ arts[1].type = "rc" /\ arts[2].type = "cv"
                  THEN "rcv"
                  ELSE IF Len(arts) = 1 THEN arts[1].type
                  ELSE "unknown"
    IN  [prefix   |-> prefix,
         phonemes |-> [i \in 1..Len(v.phoneme_list) |->
                          escape_xsampa(AtomChars(v.phoneme_list[i].name))]]

(***************************************************************************)
(* generate_articulation_files: the artifacts written for a segment of     *)
(* value v, cut from a clip of wav_length ticks                            *)
(***************************************************************************)
bleed_time == 100

\* max(0, t) without the clamp at 0 (a variant of the code)
Unclamped(a, b) == b

Max2(a, b) == IF a >= b THEN a ELSE b

Min2(a, b) == IF a <= b THEN a ELSE b

generate_articulation_files(wav_file, wav_length, v) ==
    LET append_silent_start ==
            IF v.wav_offset < Ms(bleed_time) THEN Ms(bleed_time) - v.wav_offset ELSE 0
        time_delta ==
            IF v.wav_offset < Ms(bleed_time)
            THEN append_silent_start
            ELSE 0 - (v.wav_offset - Ms(bleed_time))
        append_silent_end ==
            IF v.wav_cutoff + Ms(bleed_time) > wav_length
            THEN v.wav_cutoff + Ms(bleed_time) - wav_length
            ELSE 0
        phoneme_list ==
            [i \in 1..Len(v.phoneme_list) |->
                Row(v.phoneme_list[i].name,
                    v.phoneme_list[i].start + time_delta,
                    v.phoneme_list[i].end + time_delta)]
        art_seg_list ==
            [k \in 1..Len(v.art_seg_list) |->
                [type       |-> v.art_seg_list[k].type,
                 phonemes   |-> v.art_seg_list[k].phonemes,
                 boundaries |-> [i \in 1..Len(v.art_seg_list[k].boundaries) |->
                                    v.art_seg_list[k].boundaries[i] + time_delta]]]
    IN  [file_name           |-> get_segment_file_name(v),
         wav_file            |-> wav_file,
         \* .trans: the phoneme names, then the adjacent pairs
         trans               |-> [i \in 1..Len(phoneme_list) |-> phoneme_list[i].name],
         \* .wav: the slice of the clip and the silence added around it
         wav_start_time      |-> Max2(0, v.wav_offset - Ms(bleed_time)),
         wav_end_time        |-> Min2(wav_length, v.wav_cutoff + Ms(bleed_time)),
         append_silent_start |-> append_silent_start,
         append_silent_end   |-> append_silent_end,
         \* .seg: the rows and the cutoff, relative to the padded window
         seg_rows            |-> phoneme_list,
         relative_wav_cutoff |-> v.wav_cutoff + time_delta,
         \* .as<i>: one per articulation segment
         as_files            |-> art_seg_list]

(***************************************************************************)
(* Variant search                                                          *)
(***************************************************************************)
\* the groups of table that hold x, concatenated in table order
RECURSIVE GroupsOf(_, _, _)
GroupsOf(x, table, i) ==
    IF i > Len(table) THEN <<>>
    ELSE (IF InList(x, table[i]) THEN table[i] ELSE <<>>) \o GroupsOf(x, table, i + 1)

\* the "Deduplicate" loop
RECURSIVE Deduplicate(_, _)
Deduplicate(list, unique) ==
    IF Len(list) = 0 THEN unique
    ELSE Deduplicate(Tail(list),
             IF InList(Head(list), unique) THEN unique ELSE Append(unique, Head(list)))

get_vowel_variants(vowel) ==
    Deduplicate(<<vowel>> \o GroupsOf(vowel, vowel_variant_list, 1), <<>>)

get_consonant_variants(consonant) ==
    Deduplicate(<<consonant>> \o GroupsOf(consonant, consonant_variant_list, 1), <<>>)

\* the first element of list that is a key of map, or <<>> (the "")
FirstPresent(list, map) ==
    LET hits == { i \in 1..Len(list) : list[i] \in DOMAIN map }
    IN  IF hits = {} THEN <<>>
        ELSE list[CHOOSE i \in hits : \A j \in hits : i <= j]

\* the search with the loops exchanged: vowel variants outside, consonant
\* variants inside (a variant of the code)
find_alternative_vc_vowel_outer(vc_name, vc_hit_list) ==
    LET vowel_variants     == get_vowel_variants(vc_name[1])
        consonant_variants == get_consonant_variants(vc_name[2])
        nc == Len(consonant_variants)
        candidates == [k \in 1..(Len(vowel_variants) * nc) |->
                          << vowel_variants[((k - 1) \div nc) + 1],
                             consonant_variants[((k - 1) % nc) + 1] >>]
    IN  FirstPresent(candidates, vc_hit_list)

\* a VC name "v c" is <<v, c>>.  The candidates in the order of the nested
\* loops: consonant variants outside, vowel variants inside
find_alternative_vc(vc_name, vc_hit_list) ==
    LET vowel_variants     == get_vowel_variants(vc_name[1])
        consonant_variants == get_consonant_variants(vc_name[2])
        nv == Len(vowel_variants)
        candidates == [k \in 1..(Len(consonant_variants) * nv) |->
                          << vowel_variants[((k - 1) % nv) + 1],
                             consonant_variants[((k - 1) \div nv) + 1] >>]
    IN  FirstPresent(candidates, vc_hit_list)

\* a VR name "v -" is <<v, "-">>; the result is the vowel, or "" when none
find_alternative_vr(vowel, vr_hit_list) ==
    LET vowel_variants == get_vowel_variants(vowel)
        names == [i \in 1..Len(vowel_variants) |-> <<vowel_variants[i], "-">>]
        hit   == FirstPresent(names, vr_hit_list)
    IN  IF hit = <<>> THEN "" ELSE hit[1]

(***************************************************************************)
(* Harness of get_oto_entry_phoneme_info: the alias is any string of at    *)
(* most MaxAliasLen characters of AliasAlphabet.                           *)
(***************************************************************************)
MaxAliasLen == 4

AliasAlphabet == {"-", " ", "a", "k", "n", "y", "m", "2", "<sa>", "<a>"}

NoOutcome ==
    [status |-> "unset", type |-> "", phoneme_list |-> <<>>, is_alternative |-> FALSE]

CIdle ==
    /\ c_pc = "off"
    /\ c_alias = <<>>
    /\ c_ret = NoOutcome
    /\ hiragana_map = hiragana_json

\* the aliases "v c" of a vowel letter and the romaji of a dictionary entry
VcAliases ==
    { <<v, " ">> \o hiragana_json[i].romaji :
          v \in VowelNnChars, i \in 1..Len(hiragana_json) }

CInit ==
    /\ c_pc = "in"
    /\ \/ \E n \in 0..MaxAliasLen : c_alias \in [1..n -> AliasAlphabet]
       \/ c_alias \in VcAliases
    /\ c_ret = NoOutcome
    /\ hiragana_map = hiragana_json

Classify ==
    /\ c_pc = "in"
    /\ c_ret' = get_oto_entry_phoneme_info(c_alias)
    /\ hiragana_map' = MapAfterClassify(c_alias)
    /\ c_pc' = "done"
    /\ UNCHANGED <<c_alias, qvars, pvars, dvars>>

CNext == Classify

\* C6: get_oto_entry_phoneme_info either returns a result with its type and
\* atom list, or signals a classification failure by an exception; it
\* returns neither a result without type and atoms nor None.
C6_FailureNeverPartial ==
    c_pc = "done" => c_ret.status \in {"ok", "raise"}

HasDigitSuffix(alias) ==
    /\ Len(alias) >= 1
    /\ alias[Len(alias)] \in Digits

\* C7: an alias that is a valid grammar alias followed by digits is flagged
\* as an alternative take and classified as the alias without the digits.
C7_DigitSuffixStripped ==
    (/\ c_pc = "done"
     /\ HasDigitSuffix(c_alias)
     /\ get_oto_entry_phoneme_info(StripTrailingDigits(c_alias)).status = "ok")
    => /\ c_ret.is_alternative
       /\ c_ret.status = "ok"
       /\ c_ret.type = get_oto_entry_phoneme_info(StripTrailingDigits(c_alias)).type
       /\ c_ret.phoneme_list =
              get_oto_entry_phoneme_info(StripTrailingDigits(c_alias)).phoneme_list

\* the first entry of hiragana.json with the given romaji, or None
JsonRomaji(romaji) ==
    LET hits == { i \in 1..Len(hiragana_json) : hiragana_json[i].romaji = romaji }
    IN  IF hits = {} THEN NoInfo
        ELSE hiragana_json[CHOOSE i \in hits : \A j \in hits : i <= j]

\* the nasal a consonant atom asks for, by articulation place
PlaceNasal(consonant_phoneme) ==
    CASE consonant_phoneme \in
             {"n", "d", "d'", "t", "t'", "4", "4'", "dz", "dZ", "ts", "tS"} -> "n"
      [] consonant_phoneme \in {"m", "m'", "p", "p'", "b", "b'"} -> "m"
      [] consonant_phoneme \in {"g", "k"} -> "N"
      [] consonant_phoneme = "J" -> "J"
      [] consonant_phoneme \in {"g'", "k'"} -> "N'"
      [] OTHER -> "N\\"

\* C18: a vc alias whose vowel is the nasal-coda placeholder N\ is
\* classified with the nasal of the place of the consonant's first atom in
\* the vowel's stead, followed by the atoms of the consonant; the
\* dictionary is the same after any classification as before it.
C18_NasalCodaRewritten ==
    c_pc = "done" =>
        /\ hiragana_map = hiragana_json
        /\ (/\ TakesVCBranch(c_alias)
            /\ ~IsNone(JsonRomaji(<<c_alias[1]>>))
            /\ ~IsNone(JsonRomaji(SubSeq(c_alias, 3, Len(c_alias))))
            /\ JsonRomaji(<<c_alias[1]>>).phoneme[1] = "N\\")
           => LET consonant == JsonRomaji(SubSeq(c_alias, 3, Len(c_alias))).phoneme
              IN  /\ c_ret.status = "ok"
                  /\ c_ret.type = "vc"
                  /\ c_ret.phoneme_list = <<PlaceNasal(consonant[1])>> \o consonant

\* "n gy" has been classified: the placeholder before a palatalized velar
C18_NasalBeforePalatalizedVelar ==
    /\ c_pc = "done"
    /\ c_alias = <<"n", " ", "g", "y">>
    /\ c_ret.status = "ok"
    /\ c_ret.phoneme_list = <<"N'", "g'">>

(***************************************************************************)
(* Harness of one oto entry: generate_articulation_segment_info on a list  *)
(* of one entry, generate_articulation_files on its segment, and           *)
(* unescape_xsampa on the names of the file name.  The anchors are any     *)
(* multiples of AnchorStepMs up to MaxAnchorSteps steps, in any order.     *)
(***************************************************************************)
MaxAnchorSteps == 2
AnchorStepMs == 50

Anchors == { Ms(k * AnchorStepMs) : k \in 0..MaxAnchorSteps }

\* the length of the clip of the entry
HarnessClipLength == Ms((MaxAnchorSteps + 1) * AnchorStepMs)

\* every dictionary entry after "- " and after "n ", the entries of two
\* atoms by romaji and by kana, and one alias or more of each other shape
DeriveAliases ==
    { <<"-", " ">> \o hiragana_json[i].romaji : i \in 1..Len(hiragana_json) }
        \cup { <<"n", " ">> \o hiragana_json[i].romaji : i \in 1..Len(hiragana_json) }
        \cup { hiragana_json[i].romaji :
                   i \in { j \in 1..Len(hiragana_json) : Len(hiragana_json[j].phoneme) = 2 } }
        \cup { hiragana_json[i].kana :
                   i \in { j \in 1..Len(hiragana_json) : Len(hiragana_json[j].phoneme) = 2 } }
        \cup { <<"a", " ", "-">>, <<"n", " ", "-">>, <<"a", " ", "a">>, <<"a", " ", "<a>">>,
               <<"n", " ", "<a>">>, <<"-", " ", "<sa>">>, <<"-", "<a>">>, <<"<a>">>,
               <<"a", " ", "k">>, <<"a", " ", "k", "y">>, <<"a", " ", "k", "a">> }

OtoInfo(alias, offset, overlap, preutterance, consonant, cutoff) ==
    [alias |-> alias, offset |-> offset, overlap |-> overlap,
     preutterance |-> preutterance, consonant |-> consonant, cutoff |-> cutoff]

NoSegment == SegValue(0, 0, <<>>, <<>>)

NoFiles == [file_name |-> [prefix |-> "", phonemes |-> <<>>]]

DIdle ==
    /\ d_pc = "off"
    /\ d_oto = OtoInfo(<<>>, 0, 0, 0, 0, 0)
    /\ d_seg = [raised |-> FALSE, seg |-> NoSegment]
    /\ d_files = NoFiles
    /\ d_names = <<>>

DInit ==
    /\ d_pc = "in"
    /\ d_oto \in { OtoInfo(alias, offset, overlap, preutterance, consonant, cutoff) :
                      alias \in DeriveAliases, offset \in Anchors, overlap \in Anchors,
                      preutterance \in Anchors, consonant \in Anchors, cutoff \in Anchors }
    /\ d_seg = [raised |-> FALSE, seg |-> NoSegment]
    /\ d_files = NoFiles
    /\ d_names = <<>>

\* the body of the loop of generate_articulation_segment_info for the entry
Derive ==
    /\ d_pc = "in"
    /\ d_seg' = IF EntryRaises(d_oto)
                THEN [raised |-> TRUE, seg |-> NoSegment]
                ELSE [raised |-> FALSE, seg |-> EntrySegment(d_oto)]
    /\ hiragana_map' = MapAfterClassify(d_oto.alias)
    /\ d_pc' = "derived"
    /\ UNCHANGED <<d_oto, d_files, d_names, c_pc, c_alias, c_ret, qvars, pvars>>

\* generate_articulation_files for the segment of the entry
Emit ==
    /\ d_pc = "derived"
    /\ ~d_seg.raised
    /\ d_files' = generate_articulation_files("1.wav", HarnessClipLength, d_seg.seg)
    /\ d_pc' = "emitted"
    /\ UNCHANGED <<d_oto, d_seg, d_names, cvars, qvars, pvars>>

\* unescape_xsampa for each escaped name of the file name
Unescape ==
    /\ d_pc = "emitted"
    /\ d_names' = [i \in 1..Len(d_files.file_name.phonemes) |->
                       unescape_xsampa(d_files.file_name.phonemes[i])]
    /\ d_pc' = "unescaped"
    /\ UNCHANGED <<d_oto, d_seg, d_files, cvars, qvars, pvars>>

DNext == Derive \/ Emit \/ Unescape

(***************************************************************************)
(* generate_articulation_from_oto                                          *)
(***************************************************************************)
\* the events of out: the warnings and notices printed, and the artifacts
\* written by one call of generate_articulation_files
WarningEvent(alias) == [ev |-> "failed_to_parse", alias |-> alias]

FilesEvent(files) == [ev |-> "files", files |-> files]

MissingEvent(vc, vr) == [ev |-> "missing", vc |-> vc, vr |-> vr]

AlternativeVcEvent(vc_name, alternative_vc) ==
    [ev |-> "alternative_vc", vc_name |-> vc_name, alternative_vc |-> alternative_vc]

NoAlternativeVcEvent(vc_name) == [ev |-> "no_alternative_vc", vc_name |-> vc_name]

AlternativeVrEvent(vowel, alternative_vr) ==
    [ev |-> "alternative_vr", vowel |-> vowel, alternative_vr |-> alternative_vr]

NoAlternativeVrEvent(vowel) == [ev |-> "no_alternative_vr", vowel |-> vowel]

Clip == oto_dict[clip_idx]

\* the length of a clip, as read from its wav file
ClipLength(wav_file) ==
    LET i == CHOOSE j \in 1..Len(oto_dict) : oto_dict[j].wav_file = wav_file
    IN  oto_dict[i].wav_length

\* the loop over oto_dict ends after its first clip (a variant of the code)
FirstClipDone == clip_idx > 1

\* the for loop over oto_dict has run out of clips
AllClipsDone == clip_idx > Len(oto_dict)

\* "if len(oto_list) == 0: continue"
SkipEmptyClip ==
    /\ pc = "clip"
    /\ clip_idx <= Len(oto_dict)
    /\ Len(Clip.oto_list) = 0
    /\ clip_idx' = clip_idx + 1
    /\ UNCHANGED <<pc, oto_dict, unit_idx, seg_info_list, seg_idx, heap, cvvc_map,
                   vc_miss_list, vr_miss_list, vc_idx, vr_idx, out, failure>>
    /\ UNCHANGED <<qvars, cvars, dvars>>

\* the clip's wav file is opened and generate_articulation_segment_info
\* is entered
OpenClip ==
    /\ pc = "clip"
    /\ clip_idx <= Len(oto_dict)
    /\ Len(Clip.oto_list) > 0
    /\ pc' = "parse"
    /\ unit_idx' = 1
    /\ seg_info_list' = <<>>
    /\ UNCHANGED <<oto_dict, clip_idx, seg_idx, heap, cvvc_map,
                   vc_miss_list, vr_miss_list, vc_idx, vr_idx, out, failure>>
    /\ UNCHANGED <<qvars, cvars, dvars>>

\* open_wave raises: nothing in generate_articulation_from_oto catches it
OpenClipFails ==
    /\ pc = "clip"
    /\ clip_idx <= Len(oto_dict)
    /\ Len(Clip.oto_list) > 0
    /\ pc' = "aborted"
    /\ failure' = "open_wave"
    /\ UNCHANGED <<oto_dict, clip_idx, unit_idx, seg_info_list, seg_idx, heap, cvvc_map,
                   vc_miss_list, vr_miss_list, vc_idx, vr_idx, out>>
    /\ UNCHANGED <<qvars, cvars, dvars>>

\* one iteration of the loop of generate_articulation_segment_info with the
\* try around the whole loop instead of around its body: the first
\* exception ends the loop (a variant of the code)
ParseStepTryAroundLoop(oto_list, i, segs, h) ==
    IF EntryRaises(oto_list[i])
    THEN [unit_idx |-> Len(oto_list) + 1, seg_info_list |-> segs, heap |-> h,
          warned |-> TRUE]
    ELSE LET a == NewSegment(h, EntrySegment(oto_list[i]))
         IN  [unit_idx |-> i + 1, seg_info_list |-> Append(segs, a.seg),
              heap |-> a.heap, warned |-> FALSE]

\* one iteration of the loop of generate_articulation_segment_info: the
\* entry's segment is appended, or the exception is caught and printed
ParseStep(oto_list, i, segs, h) ==
    IF EntryRaises(oto_list[i])
    THEN [unit_idx |-> i + 1, seg_info_list |-> segs, heap |-> h, warned |-> TRUE]
    ELSE LET a == NewSegment(h, EntrySegment(oto_list[i]))
         IN  [unit_idx |-> i + 1, seg_info_list |-> Append(segs, a.seg),
              heap |-> a.heap, warned |-> FALSE]

ParseUnit ==
    /\ pc = "parse"
    /\ unit_idx <= Len(Clip.oto_list)
    /\ LET r == ParseStep(Clip.oto_list, unit_idx, seg_info_list, heap)
       IN  /\ unit_idx' = r.unit_idx
           /\ seg_info_list' = r.seg_info_list
           /\ heap' = r.heap
           /\ out' = IF r.warned
                     THEN Append(out, WarningEvent(Clip.oto_list[unit_idx].alias))
                     ELSE out
    /\ hiragana_map' = MapAfterClassify(Clip.oto_list[unit_idx].alias)
    /\ UNCHANGED <<pc, oto_dict, clip_idx, seg_idx, cvvc_map,
                   vc_miss_list, vr_miss_list, vc_idx, vr_idx, failure>>
    /\ UNCHANGED <<qvars, c_pc, c_alias, c_ret, dvars>>

\* generate_articulation_segment_info returns seg_info_list
EndParse ==
    /\ pc = "parse"
    /\ unit_idx > Len(Clip.oto_list)
    /\ pc' = "emit"
    /\ seg_idx' = 1
    /\ UNCHANGED <<oto_dict, clip_idx, unit_idx, seg_info_list, heap, cvvc_map,
                   vc_miss_list, vr_miss_list, vc_idx, vr_idx, out, failure>>
    /\ UNCHANGED <<qvars, cvars, dvars>>

\* generate_articulation_files(wav_file_resolved, seg_info, output_dir)
EmitPrimary ==
    /\ pc = "emit"
    /\ seg_idx <= Len(seg_info_list)
    /\ out' = Append(out, FilesEvent(
                  generate_articulation_files(Clip.wav_file, ClipLength(Clip.wav_file),
                      Deref(heap, seg_info_list[seg_idx]))))
    /\ pc' = "record"
    /\ UNCHANGED <<oto_dict, clip_idx, unit_idx, seg_info_list, seg_idx, heap, cvvc_map,
                   vc_miss_list, vr_miss_list, vc_idx, vr_idx, failure>>
    /\ UNCHANGED <<qvars, cvars, dvars>>

\* a dict assignment that keeps an entry already present (a variant of the
\* code)
PutIfAbsent(map, key, entry) ==
    [x \in DOMAIN map \cup {key} |-> IF x \in DOMAIN map THEN map[x] ELSE entry]

\* cvvc_map[key] = entry
Put(map, key, entry) ==
    [x \in DOMAIN map \cup {key} |-> IF x = key THEN entry ELSE map[x]]

\* the keys under which the articulation segments of seg are recorded, in
\* the order of art_seg_list; none for a type other than vc, cv and vr
KeysOf(h, seg) ==
    LET arts == seg.art_seg_list
        keyed == SelectSeq([k \in 1..Len(arts) |-> k],
                           LAMBDA k : arts[k].type \in {"vc", "cv", "vr"})
    IN  [j \in 1..Len(keyed) |->
            IF arts[keyed[j]].type = "vr"
            THEN <<h[arts[keyed[j]].phonemes].atoms[1], "-">>
            ELSE h[arts[keyed[j]].phonemes].atoms]

\* the loop over seg_info.art_seg_list that fills cvvc_map
RECURSIVE RecordKeys(_, _, _)
RecordKeys(map, keys, entry) ==
    IF Len(keys) = 0 THEN map
    ELSE RecordKeys(Put(map, Head(keys), entry), Tail(keys), entry)

RecordPrimary ==
    /\ pc = "record"
    /\ cvvc_map' = RecordKeys(cvvc_map, KeysOf(heap, seg_info_list[seg_idx]),
                       [seg_info |-> seg_info_list[seg_idx], wav_file |-> Clip.wav_file])
    /\ seg_idx' = seg_idx + 1
    /\ pc' = "emit"
    /\ UNCHANGED <<oto_dict, clip_idx, unit_idx, seg_info_list, heap,
                   vc_miss_list, vr_miss_list, vc_idx, vr_idx, out, failure>>
    /\ UNCHANGED <<qvars, cvars, dvars>>

\* generate_articulation_files raises after the segment was put into
\* cvvc_map (a variant of the code, with the recording before the emission)
EmitPrimaryFailsRecorded ==
    /\ pc = "emit"
    /\ seg_idx <= Len(seg_info_list)
    /\ cvvc_map' = RecordKeys(cvvc_map, KeysOf(heap, seg_info_list[seg_idx]),
                       [seg_info |-> seg_info_list[seg_idx], wav_file |-> Clip.wav_file])
    /\ pc' = "aborted"
    /\ failure' = "emit"
    /\ UNCHANGED <<oto_dict, clip_idx, unit_idx, seg_info_list, seg_idx, heap,
                   vc_miss_list, vr_miss_list, vc_idx, vr_idx, out>>
    /\ UNCHANGED <<qvars, cvars, dvars>>

\* generate_articulation_files raises (the clip cannot be read, a file
\* cannot be written): nothing in generate_articulation_from_oto catches it
EmitPrimaryFails ==
    /\ pc = "emit"
    /\ seg_idx <= Len(seg_info_list)
    /\ pc' = "aborted"
    /\ failure' = "emit"
    /\ UNCHANGED <<oto_dict, clip_idx, unit_idx, seg_info_list, seg_idx, heap, cvvc_map,
                   vc_miss_list, vr_miss_list, vc_idx, vr_idx, out>>
    /\ UNCHANGED <<qvars, cvars, dvars>>

\* the loop over seg_info_list ends: on to the next clip
EndEmit ==
    /\ pc = "emit"
    /\ seg_idx > Len(seg_info_list)
    /\ pc' = "clip"
    /\ clip_idx' = clip_idx + 1
    /\ UNCHANGED <<oto_dict, unit_idx, seg_info_list, seg_idx, heap, cvvc_map,
                   vc_miss_list, vr_miss_list, vc_idx, vr_idx, out, failure>>
    /\ UNCHANGED <<qvars, cvars, dvars>>

\* the two loops that fill vc_miss_list and vr_miss_list, and the prints
ComputeMissing ==
    /\ pc = "clip"
    /\ AllClipsDone
    /\ LET vc == SelectSeq(vc_list, LAMBDA n : n \notin DOMAIN cvvc_map)
           vr == SelectSeq(vr_list, LAMBDA v : <<v, "-">> \notin DOMAIN cvvc_map)
       IN  /\ vc_miss_list' = vc
           /\ vr_miss_list' = vr
           /\ out' = Append(out, MissingEvent(vc, vr))
    /\ pc' = "vc"
    /\ vc_idx' = 1
    /\ UNCHANGED <<oto_dict, clip_idx, unit_idx, seg_info_list, seg_idx, heap, cvvc_map,
                   vr_idx, failure>>
    /\ UNCHANGED <<qvars, cvars, dvars>>

\* one iteration of "for vc_name in vc_miss_list" that finds a donor: the
\* relabelled copy is made and emitted against the donor's clip
SubstituteVC ==
    /\ pc = "vc"
    /\ vc_idx <= Len(vc_miss_list)
    /\ LET vc_name        == vc_miss_list[vc_idx]
           alternative_vc == find_alternative_vc(vc_name, cvvc_map)
       IN  /\ alternative_vc # <<>>
           /\ LET alternative_info == cvvc_map[alternative_vc]
                  new == replace_phoneme(heap, alternative_info.seg_info,
                             <<alternative_vc[2]>>, <<vc_name[2]>>)
              IN  /\ heap' = new.heap
                  /\ out' = out \o
                         << AlternativeVcEvent(vc_name, alternative_vc),
                            FilesEvent(generate_articulation_files(
                                alternative_info.wav_file,
                                ClipLength(alternative_info.wav_file),
                                Deref(new.heap, new.seg))) >>
    /\ vc_idx' = vc_idx + 1
    /\ UNCHANGED <<pc, oto_dict, clip_idx, unit_idx, seg_info_list, seg_idx, cvvc_map,
                   vc_miss_list, vr_miss_list, vr_idx, failure>>
    /\ UNCHANGED <<qvars, cvars, dvars>>

\* the same iteration when generate_articulation_files raises
SubstituteVCFails ==
    /\ pc = "vc"
    /\ vc_idx <= Len(vc_miss_list)
    /\ LET vc_name        == vc_miss_list[vc_idx]
           alternative_vc == find_alternative_vc(vc_name, cvvc_map)
       IN  /\ alternative_vc # <<>>
           /\ heap' = replace_phoneme(heap, cvvc_map[alternative_vc].seg_info,
                          <<alternative_vc[2]>>, <<vc_name[2]>>).heap
           /\ out' = Append(out, AlternativeVcEvent(vc_name, alternative_vc))
    /\ pc' = "aborted"
    /\ failure' = "emit"
    /\ UNCHANGED <<oto_dict, clip_idx, unit_idx, seg_info_list, seg_idx, cvvc_map,
                   vc_miss_list, vr_miss_list, vc_idx, vr_idx>>
    /\ UNCHANGED <<qvars, cvars, dvars>>

\* one iteration that finds no donor: the warning is printed
SkipVC ==
    /\ pc = "vc"
    /\ vc_idx <= Len(vc_miss_list)
    /\ find_alternative_vc(vc_miss_list[vc_idx], cvvc_map) = <<>>
    /\ out' = Append(out, NoAlternativeVcEvent(vc_miss_list[vc_idx]))
    /\ vc_idx' = vc_idx + 1
    /\ UNCHANGED <<pc, oto_dict, clip_idx, unit_idx, seg_info_list, seg_idx, heap, cvvc_map,
                   vc_miss_list, vr_miss_list, vr_idx, failure>>
    /\ UNCHANGED <<qvars, cvars, dvars>>

\* the loop over vc_miss_list ends
EndVC ==
    /\ pc = "vc"
    /\ vc_idx > Len(vc_miss_list)
    /\ pc' = "vr"
    /\ vr_idx' = 1
    /\ UNCHANGED <<oto_dict, clip_idx, unit_idx, seg_info_list, seg_idx, heap, cvvc_map,
                   vc_miss_list, vr_miss_list, vc_idx, out, failure>>
    /\ UNCHANGED <<qvars, cvars, dvars>>

\* one iteration of "for vowel in vr_miss_list" that finds a donor
SubstituteVR ==
    /\ pc = "vr"
    /\ vr_idx <= Len(vr_miss_list)
    /\ LET vowel          == vr_miss_list[vr_idx]
           alternative_vr == find_alternative_vr(vowel, cvvc_map)
       IN  /\ alternative_vr # ""
           /\ LET alternative_info == cvvc_map[<<alternative_vr, "-">>]
                  new == replace_phoneme(heap, alternative_info.seg_info,
                             <<alternative_vr>>, <<vowel>>)
              IN  /\ heap' = new.heap
                  /\ out' = out \o
                         << AlternativeVrEvent(vowel, alternative_vr),
                            FilesEvent(generate_articulation_files(
                                alternative_info.wav_file,
                                ClipLength(alternative_info.wav_file),
                                Deref(new.heap, new.seg))) >>
    /\ vr_idx' = vr_idx + 1
    /\ UNCHANGED <<pc, oto_dict, clip_idx, unit_idx, seg_info_list, seg_idx, cvvc_map,
                   vc_miss_list, vr_miss_list, vc_idx, failure>>
    /\ UNCHANGED <<qvars, cvars, dvars>>

\* the same iteration when generate_articulation_files raises
SubstituteVRFails ==
    /\ pc = "vr"
    /\ vr_idx <= Len(vr_miss_list)
    /\ LET vowel          == vr_miss_list[vr_idx]
           alternative_vr == find_alternative_vr(vowel, cvvc_map)
       IN  /\ alternative_vr # ""
           /\ heap' = replace_phoneme(heap, cvvc_map[<<alternative_vr, "-">>].seg_info,
                          <<alternative_vr>>, <<vowel>>).heap
           /\ out' = Append(out, AlternativeVrEvent(vowel, alternative_vr))
    /\ pc' = "aborted"
    /\ failure' = "emit"
    /\ UNCHANGED <<oto_dict, clip_idx, unit_idx, seg_info_list, seg_idx, cvvc_map,
                   vc_miss_list, vr_miss_list, vc_idx, vr_idx>>
    /\ UNCHANGED <<qvars, cvars, dvars>>

\* one iteration that finds no donor: the warning is printed
SkipVR ==
    /\ pc = "vr"
    /\ vr_idx <= Len(vr_miss_list)
    /\ find_alternative_vr(vr_miss_list[vr_idx], cvvc_map) = ""
    /\ out' = Append(out, NoAlternativeVrEvent(vr_miss_list[vr_idx]))
    /\ vr_idx' = vr_idx + 1
    /\ UNCHANGED <<pc, oto_dict, clip_idx, unit_idx, seg_info_list, seg_idx, heap, cvvc_map,
                   vc_miss_list, vr_miss_list, vc_idx, failure>>
    /\ UNCHANGED <<qvars, cvars, dvars>>

\* the loop over vr_miss_list ends and the function returns
EndVR ==
    /\ pc = "vr"
    /\ vr_idx > Len(vr_miss_list)
    /\ pc' = "done"
    /\ UNCHANGED <<oto_dict, clip_idx, unit_idx, seg_info_list, seg_idx, heap, cvvc_map,
                   vc_miss_list, vr_miss_list, vc_idx, vr_idx, out, failure>>
    /\ UNCHANGED <<qvars, cvars, dvars>>

(***************************************************************************)
(* The batches: at most MaxUnits oto entries, spread over two clips.  The  *)
(* oto_list of each clip is sorted by preutterance, as read_oto leaves it. *)
(***************************************************************************)
MaxUnits == 3

Oto(alias, offset, overlap, preutterance, consonant, cutoff) ==
    [alias |-> alias, offset |-> Ms(offset), overlap |-> Ms(overlap),
     preutterance |-> Ms(preutterance), consonant |-> Ms(consonant),
     cutoff |-> Ms(cutoff)]

\* the entries a batch is made of
Catalog ==
    << Oto(<<"a", " ", "k", "y">>, 200, 210, 230, 260, 300),
       Oto(<<"a", " ", "k", "y">>, 50, 60, 90, 95, 100),
       Oto(<<"n", " ", "k", "y">>, 400, 410, 430, 450, 480),
       Oto(<<"n", " ", "-">>, 500, 520, 540, 545, 560),
       Oto(<<"k", "a">>, 120, 125, 150, 180, 250),
       Oto(<<"a", " ", "k", "a">>, 100, 110, 120, 150, 200),
       Oto(<<"<a>">>, 280, 290, 300, 330, 380),
       Oto(<<"n", " ", "k">>, 310, 320, 340, 360, 390) >>

\* "Sort the oto list by preutterance"
SortedByPreutterance(oto_list) ==
    \A i \in 1..(Len(oto_list) - 1) :
        oto_list[i].preutterance <= oto_list[i + 1].preutterance

ClipOf(wav_file, wav_length, oto_list) ==
    [wav_file |-> wav_file, wav_length |-> wav_length, oto_list |-> oto_list]

\* the batch whose first clip holds the first k entries of units
Batch(units, k) ==
    << ClipOf("1.wav", Ms(600), SubSeq(units, 1, k)),
       ClipOf("2.wav", Ms(350), SubSeq(units, k + 1, Len(units))) >>

PIdle ==
    /\ pc = "off"
    /\ oto_dict = <<>>
    /\ clip_idx = 1
    /\ unit_idx = 1
    /\ seg_info_list = <<>>
    /\ seg_idx = 1
    /\ heap = <<>>
    /\ cvvc_map = <<>>
    /\ vc_miss_list = <<>>
    /\ vr_miss_list = <<>>
    /\ vc_idx = 1
    /\ vr_idx = 1
    /\ out = <<>>
    /\ failure = "none"

PInit ==
    /\ pc = "clip"
    /\ \E n \in 0..MaxUnits : \E c \in [1..n -> 1..Len(Catalog)], k \in 0..n :
           /\ oto_dict = Batch([i \in 1..n |-> Catalog[c[i]]], k)
           /\ \A j \in 1..Len(oto_dict) : SortedByPreutterance(oto_dict[j].oto_list)
    /\ clip_idx = 1
    /\ unit_idx = 1
    /\ seg_info_list = <<>>
    /\ seg_idx = 1
    /\ heap = <<>>
    /\ cvvc_map = <<>>
    /\ vc_miss_list = <<>>
    /\ vr_miss_list = <<>>
    /\ vc_idx = 1
    /\ vr_idx = 1
    /\ out = <<>>
    /\ failure = "none"

Init == PInit /\ QIdle /\ CIdle /\ DIdle

Next ==
    \/ SkipEmptyClip
    \/ OpenClip
    \/ OpenClipFails
    \/ ParseUnit
    \/ EndParse
    \/ EmitPrimary
    \/ EmitPrimaryFails
    \/ RecordPrimary
    \/ EndEmit
    \/ ComputeMissing
    \/ SubstituteVC
    \/ SubstituteVCFails
    \/ SkipVC
    \/ EndVC
    \/ SubstituteVR
    \/ SubstituteVRFails
    \/ SkipVR
    \/ EndVR

(***************************************************************************)
(* Specifications                                                          *)
(***************************************************************************)
Spec == Init /\ [][Next]_vars

\* quantize_boundary alone, on each bounded input
InitQuantize == QInit /\ CIdle /\ PIdle /\ DIdle

SpecQuantize == InitQuantize /\ [][QNext]_vars

\* get_oto_entry_phoneme_info alone, on each bounded alias
InitClassify == CInit /\ QIdle /\ PIdle /\ DIdle

SpecClassify == InitClassify /\ [][CNext]_vars

\* one oto entry alone, derived, emitted and its file name read back
InitDerive == DInit /\ QIdle /\ PIdle /\ CIdle

SpecDerive == InitDerive /\ [][DNext]_vars

(***************************************************************************)
(* Properties of generate_articulation_from_oto                            *)
(***************************************************************************)
LastOut == out[Len(out)]

\* the last iteration of the VC loop emitted a substitute
SubstituteVcEmitted ==
    /\ pc = "vc"
    /\ vc_idx > 1
    /\ Len(out) >= 2
    /\ LastOut.ev = "files"

\* C3: the substitute emitted for a missing VC name reads the requested
\* vowel and consonant, in its phoneme list and in the atoms of each of its
\* articulation segments.
C3_SubstituteReadsRequestedAtoms ==
    SubstituteVcEmitted =>
        LET vc_name == vc_miss_list[vc_idx - 1]
            files   == LastOut.files
        IN  /\ files.trans = vc_name
            /\ \A k \in 1..Len(files.as_files) : files.as_files[k].phonemes = vc_name

\* C4 as claimed: once a key is in cvvc_map its entry is never replaced.
C4_FirstEntryKept ==
    [][\A key \in DOMAIN cvvc_map :
           key \in DOMAIN cvvc_map' /\ cvvc_map'[key] = cvvc_map[key]]_vars

\* C4: recording a segment binds each of its keys to that segment and its
\* clip, whatever the key was bound to, and leaves every other key alone; no
\* other step changes cvvc_map.  So cvvc_map holds, for each key, the last
\* segment recorded under it.
C4_LastEntryKept ==
    [][IF pc = "record"
       THEN LET keys  == KeysOf(heap, seg_info_list[seg_idx])
                keyed == { keys[i] : i \in 1..Len(keys) }
            IN  /\ DOMAIN cvvc_map' = DOMAIN cvvc_map \cup keyed
                /\ \A key \in keyed :
                       cvvc_map'[key] = [seg_info |-> seg_info_list[seg_idx],
                                         wav_file |-> Clip.wav_file]
                /\ \A key \in DOMAIN cvvc_map \ keyed : cvvc_map'[key] = cvvc_map[key]
       ELSE cvvc_map' = cvvc_map]_vars

\* two segments of the clip were recorded under one key, and the key is
\* bound to the second
C4_KeyRecordedTwice ==
    /\ pc = "emit"
    /\ seg_idx = 3
    /\ KeysOf(heap, seg_info_list[1]) # <<>>
    /\ KeysOf(heap, seg_info_list[1]) = KeysOf(heap, seg_info_list[2])
    /\ Deref(heap, seg_info_list[1]) # Deref(heap, seg_info_list[2])
    /\ cvvc_map[KeysOf(heap, seg_info_list[2])[1]].seg_info = seg_info_list[2]

CompletionEvents ==
    {"missing", "alternative_vc", "no_alternative_vc", "alternative_vr", "no_alternative_vr"}

\* C5: a failed emission is skipped: the run goes on through the remaining
\* clips and the completion pass.
C5_EmissionFailureSkipsOneSegment ==
    (pc \in {"done", "aborted"} /\ failure = "emit") =>
        /\ clip_idx > Len(oto_dict)
        /\ \E i \in 1..Len(out) : out[i].ev = "missing"

\* the segments of the first n entries of oto_list whose try block does not
\* raise, in the order of the entries
RECURSIVE SegmentsOfGood(_, _)
SegmentsOfGood(oto_list, n) ==
    IF n = 0 THEN <<>>
    ELSE IF EntryRaises(oto_list[n]) THEN SegmentsOfGood(oto_list, n - 1)
    ELSE Append(SegmentsOfGood(oto_list, n - 1), EntrySegment(oto_list[n]))

\* C8: in generate_articulation_segment_info an entry that fails is
\* skipped, and seg_info_list holds the segments of all the other entries
\* gone through, in their order; when the loop ends every entry has been
\* gone through.
C8_BadEntrySkipped ==
    /\ pc \in {"parse", "emit", "record"} =>
           /\ unit_idx <= Len(Clip.oto_list) + 1
           /\ [i \in 1..Len(seg_info_list) |-> Deref(heap, seg_info_list[i])]
                  = SegmentsOfGood(Clip.oto_list, unit_idx - 1)
    /\ pc \in {"emit", "record"} =>
           [i \in 1..Len(seg_info_list) |-> Deref(heap, seg_info_list[i])]
               = SegmentsOfGood(Clip.oto_list, Len(Clip.oto_list))

\* the loop has ended on a list in which a failing entry comes before one
\* that yields a segment
C8_BadThenGood ==
    /\ pc = "emit"
    /\ \E i, j \in 1..Len(Clip.oto_list) :
           /\ i < j
           /\ EntryRaises(Clip.oto_list[i])
           /\ ~EntryRaises(Clip.oto_list[j])
    /\ Len(seg_info_list) >= 1

InCompletion == pc \in {"vc", "vr"} \/ (pc = "clip" /\ AllClipsDone)

\* C9: no step of the completion pass changes cvvc_map or the atoms, times
\* and boundaries of a SegmentInfo it holds.
C9_CompletionLeavesMap ==
    [][InCompletion =>
           /\ cvvc_map' = cvvc_map
           /\ \A key \in DOMAIN cvvc_map :
                  Deref(heap', cvvc_map[key].seg_info)
                      = Deref(heap, cvvc_map[key].seg_info)]_vars

\* one donor has given two substitutes, each relabelled
C9_TwoSubstitutesOfOneDonor ==
    /\ pc = "done"
    /\ \E i, j \in 1..(Len(out) - 1) :
           /\ i < j
           /\ out[i].ev = "alternative_vc"
           /\ out[j].ev = "alternative_vc"
           /\ out[i].alternative_vc = out[j].alternative_vc
           /\ out[i].alternative_vc[2] # out[i].vc_name[2]
           /\ out[i + 1].ev = "files"
           /\ out[j + 1].ev = "files"

CompletionStarted ==
    \/ pc \in {"vc", "vr", "done"}
    \/ vc_miss_list # <<>>
    \/ vr_miss_list # <<>>
    \/ vc_idx > 1
    \/ vr_idx > 1
    \/ \E i \in 1..Len(out) : out[i].ev \in CompletionEvents

\* the number of oto entries of the batch
RECURSIVE EntriesFrom(_)
EntriesFrom(j) ==
    IF j > Len(oto_dict) THEN 0 ELSE Len(oto_dict[j].oto_list) + EntriesFrom(j + 1)

\* C10: once a missing list has been computed, a substitute looked for or
\* emitted, every clip has been gone through, each entry of the batch has
\* given its warning or its files before the missing lists were printed, and
\* nothing but the completion pass writes after them.
C10_PhaseBarrier ==
    CompletionStarted =>
        /\ clip_idx > Len(oto_dict)
        /\ pc \in {"vc", "vr", "done", "aborted"}
        /\ \E m \in 1..Len(out) :
               /\ out[m].ev = "missing"
               /\ m = EntriesFrom(1) + 1
               /\ \A i \in 1..(m - 1) : out[i].ev \in {"files", "failed_to_parse"}
               /\ \A i \in (m + 1)..Len(out) :
                      out[i].ev \in (CompletionEvents \ {"missing"}) \cup {"files"}
               /\ \A i \in (m + 1)..Len(out) :
                      out[i].ev = "files" =>
                          out[i - 1].ev \in {"alternative_vc", "alternative_vr"}

\* the run is over, both clips held entries and a substitute was emitted
C10_CompletionAfterTwoClips ==
    /\ pc = "done"
    /\ \A j \in 1..Len(oto_dict) : Len(oto_dict[j].oto_list) > 0
    /\ \E i \in 1..Len(out) : out[i].ev = "alternative_vc"

(***************************************************************************)
(* Properties of one oto entry                                             *)
(***************************************************************************)
Derived == d_pc \in {"derived", "emitted", "unescaped"} /\ ~d_seg.raised

\* the entry has given a segment of type cv and its overlap is later than
\* its offset
CvWithOverlap ==
    /\ Derived
    /\ d_seg.seg.art_seg_list[1].type = "cv"
    /\ d_oto.overlap > d_oto.offset

\* C11 as claimed: whatever the first atom, a cv unit with overlap > offset
\* starts its first atom at the midpoint of offset and overlap.
C11_CvStartsAtMidpoint ==
    CvWithOverlap =>
        2 * d_seg.seg.phoneme_list[1].start = d_oto.offset + d_oto.overlap

\* C11: a cv unit with overlap > offset whose first atom is not a plosive
\* starts its first atom at offset + (overlap - offset) / 2; when the first
\* atom is a plosive it starts at overlap.  The boundaries of the cv
\* articulation segment are the quantized [start, preutterance, consonant].
C11_CvNonPlosiveStartsAtMidpoint ==
    CvWithOverlap =>
        LET first == d_seg.seg.phoneme_list[1]
        IN  /\ ~InList(first.name, plosive_consonant_list)
                  => 2 * first.start = d_oto.offset + d_oto.overlap
            /\ InList(first.name, plosive_consonant_list)
                  => first.start = d_oto.overlap
            /\ d_seg.seg.art_seg_list[1].boundaries =
                   quantize_boundary(<<first.start, d_oto.preutterance, d_oto.consonant>>)

\* "sa" with offset 0 and overlap 50 ms has its s at 25 ms
C11_FricativeAtMidpoint ==
    /\ CvWithOverlap
    /\ d_oto.alias = <<"s", "a">>
    /\ d_oto.offset = 0
    /\ d_oto.overlap = Ms(AnchorStepMs)
    /\ 2 * d_seg.seg.phoneme_list[1].start = Ms(AnchorStepMs)

\* the dictionary entry a "-" alias is looked up to
InitialInfo(alias) ==
    LET rest == Strip(Tail(alias))
    IN  IF MatchesKana(rest) THEN get_hiragana_info(RemoveSpaces(rest))
        ELSE get_romaji_info(RemoveSpaces(rest))

\* C12: an entry whose alias is "-" and a unit of two atoms gives Sil at
\* offset - 20 ms and the first atom at offset, one articulation segment of
\* type rc with the atoms Sil and the first atom and the quantized
\* boundaries [offset - 20, offset, overlap], and wav_cutoff = preutterance.
C12_RcvDerivation ==
    (/\ d_pc \in {"derived", "emitted", "unescaped"}
     /\ Len(d_oto.alias) > 0
     /\ d_oto.alias[1] = "-"
     /\ Len(InitialInfo(d_oto.alias).phoneme) = 2)
    => LET atom == InitialInfo(d_oto.alias).phoneme[1]
           seg  == d_seg.seg
       IN  /\ ~d_seg.raised
           /\ seg.wav_cutoff = d_oto.preutterance
           /\ Len(seg.phoneme_list) = 2
           /\ seg.phoneme_list[1].name = "Sil"
           /\ seg.phoneme_list[1].start = d_oto.offset - Ms(20)
           /\ seg.phoneme_list[2].name = atom
           /\ seg.phoneme_list[2].start = d_oto.offset
           /\ seg.art_seg_list =
                  << [type       |-> "rc",
                      phonemes   |-> <<"Sil", atom>>,
                      boundaries |-> quantize_boundary(
                          <<d_oto.offset - Ms(20), d_oto.offset, d_oto.overlap>>)] >>

\* "- <sa>" has been derived, its cutoff not at its preutterance
C12_InitialSa ==
    /\ d_pc = "derived"
    /\ d_oto.alias = <<"-", " ", "<sa>">>
    /\ d_oto.cutoff # d_oto.preutterance
    /\ d_seg.seg.art_seg_list[1].phonemes = <<"Sil", "s">>

\* C13: each escaped name of a file name unescapes to the atom name it was
\* made from.
C13_EscapeRoundTrip ==
    d_pc = "unescaped" =>
        \A i \in 1..Len(d_names) :
            d_names[i] = AtomChars(d_seg.seg.phoneme_list[i].name)

\* C14: the slice of the clip never starts before 0; below the bleed
\* margin of 100 ms it starts at 0 and 100 ms - wav_offset of silence is
\* prepended, from the margin on it starts at wav_offset - 100 ms and no
\* silence is prepended.
C14_LeadingSilence ==
    d_pc \in {"emitted", "unescaped"} =>
        LET wav_offset == d_seg.seg.wav_offset
        IN  /\ d_files.wav_start_time >= 0
            /\ wav_offset < Ms(100) =>
                   /\ d_files.wav_start_time = 0
                   /\ d_files.append_silent_start = Ms(100) - wav_offset
            /\ wav_offset >= Ms(100) =>
                   /\ d_files.wav_start_time = wav_offset - Ms(100)
                   /\ d_files.append_silent_start = 0

\* a segment 50 ms into its clip has been emitted with 50 ms of silence
C14_HalfMarginOfSilence ==
    /\ d_pc = "emitted"
    /\ d_seg.seg.wav_offset = Ms(AnchorStepMs)
    /\ Ms(AnchorStepMs) < Ms(100)
    /\ d_files.append_silent_start = Ms(100) - Ms(AnchorStepMs)

\* C20: the quantized boundaries of every articulation segment are in
\* non-decreasing order, whatever the order of the anchors.
C20_BoundariesOrdered ==
    Derived =>
        \A k \in 1..Len(d_seg.seg.art_seg_list) :
            NonDecreasing(d_seg.seg.art_seg_list[k].boundaries)

(***************************************************************************)
(* Properties of the completion pass                                       *)
(***************************************************************************)
\* the atoms searched for x: x, then the members of the groups of table
\* that hold x, in table order, each atom once
SearchOrder(x, table) ==
    LET members == GroupsOf(x, table, 1)
        fresh   == SelectSeq([i \in 1..Len(members) |-> i],
                       LAMBDA i : /\ members[i] # x
                                  /\ \A j \in 1..(i - 1) : members[j] # members[i])
    IN  <<x>> \o [k \in 1..Len(fresh) |-> members[fresh[k]]]

\* C16: the donor named for a missing VC key is a key of cvvc_map and the
\* first present combination with the consonant's variants in the outer
\* loop and the vowel's variants in the inner one; when no donor is named
\* no combination is present and no files are written for the key.
C16_FirstPresentCombination ==
    \A i \in 1..Len(out) :
        /\ out[i].ev = "alternative_vc" =>
               LET vs  == SearchOrder(out[i].vc_name[1], vowel_variant_list)
                   cs  == SearchOrder(out[i].vc_name[2], consonant_variant_list)
                   hit == out[i].alternative_vc
               IN  /\ hit \in DOMAIN cvvc_map
                   /\ \E ic \in 1..Len(cs), iv \in 1..Len(vs) :
                          /\ hit = <<vs[iv], cs[ic]>>
                          /\ \A jc \in 1..Len(cs), jv \in 1..Len(vs) :
                                 (jc < ic \/ (jc = ic /\ jv < iv))
                                     => <<vs[jv], cs[jc]>> \notin DOMAIN cvvc_map
        /\ out[i].ev = "no_alternative_vc" =>
               LET vs == SearchOrder(out[i].vc_name[1], vowel_variant_list)
                   cs == SearchOrder(out[i].vc_name[2], consonant_variant_list)
               IN  /\ \A jc \in 1..Len(cs), jv \in 1..Len(vs) :
                          <<vs[jv], cs[jc]>> \notin DOMAIN cvvc_map
                   /\ i < Len(out) => out[i + 1].ev # "files"

\* the donor of a missing key differs from it in both atoms, while a key
\* with the requested vowel and another consonant is present too
C16_DonorOfOtherVowelChosen ==
    \E i \in 1..Len(out) :
        /\ out[i].ev = "alternative_vc"
        /\ out[i].vc_name = <<"N", "k'">>
        /\ out[i].alternative_vc = <<"N'", "k'">>
        /\ <<"N", "k">> \in DOMAIN cvvc_map

\* the files of the donor segment of a VR key, as they were written
DonorFiles(vowel) ==
    LET entry == cvvc_map[<<vowel, "-">>]
    IN  generate_articulation_files(entry.wav_file, ClipLength(entry.wav_file),
            Deref(heap, entry.seg_info))

\* C17: the donor named for a missing VR vowel is the first of its variants
\* with a "v' -" key, and the files written for it read the vowel, then Sil,
\* at the times and boundaries of the donor; a missing vowel gone through
\* with a variant present has had its donor named; when no donor is named
\* no variant is present and no files are written.
C17_VrSubstituteRelabelled ==
    /\ \A i \in 1..Len(out) :
           /\ out[i].ev = "alternative_vr" =>
                  LET vs  == SearchOrder(out[i].vowel, vowel_variant_list)
                      hit == out[i].alternative_vr
                  IN  /\ <<hit, "-">> \in DOMAIN cvvc_map
                      /\ \E iv \in 1..Len(vs) :
                             /\ vs[iv] = hit
                             /\ \A jv \in 1..(iv - 1) :
                                    <<vs[jv], "-">> \notin DOMAIN cvvc_map
                      /\ i < Len(out) =>
                             /\ out[i + 1].ev = "files"
                             /\ out[i + 1].files.trans = <<out[i].vowel, "Sil">>
                             /\ Len(out[i + 1].files.as_files) = 1
                             /\ out[i + 1].files.as_files[1].phonemes
                                    = <<out[i].vowel, "Sil">>
                             /\ out[i + 1].files.as_files[1].boundaries
                                    = DonorFiles(hit).as_files[1].boundaries
                             /\ [k \in 1..2 |-> out[i + 1].files.seg_rows[k].start]
                                    = [k \in 1..2 |-> DonorFiles(hit).seg_rows[k].start]
           /\ out[i].ev = "no_alternative_vr" =>
                  /\ \A v \in { SearchOrder(out[i].vowel, vowel_variant_list)[k] :
                                    k \in 1..Len(SearchOrder(out[i].vowel, vowel_variant_list)) } :
                         <<v, "-">> \notin DOMAIN cvvc_map
                  /\ i < Len(out) => out[i + 1].ev # "files"
    /\ pc \in {"vr", "done"} =>
           \A j \in 1..(vr_idx - 1) :
               (\E k \in 1..Len(SearchOrder(vr_miss_list[j], vowel_variant_list)) :
                    <<SearchOrder(vr_miss_list[j], vowel_variant_list)[k], "-">>
                        \in DOMAIN cvvc_map)
               => \E i \in 1..(Len(out) - 1) :
                      /\ out[i].ev = "alternative_vr"
                      /\ out[i].vowel = vr_miss_list[j]
                      /\ out[i + 1].ev = "files"

\* the missing vowel N has been given the segment of N\ -, relabelled
C17_NasalFromPlaceholder ==
    /\ pc = "done"
    /\ \E i \in 1..(Len(out) - 1) :
           /\ out[i].ev = "alternative_vr"
           /\ out[i].vowel = "N"
           /\ out[i].alternative_vr = "N\\"
           /\ out[i + 1].ev = "files"
           /\ out[i + 1].files.trans = <<"N", "Sil">>

\* C19: every entry of cvvc_map is of a segment whose files were written
\* before; the segment whose emission raised is in no entry of cvvc_map;
\* every donor named is an entry of cvvc_map.
C19_RecordedAfterEmitted ==
    /\ \A key \in DOMAIN cvvc_map :
           \E i \in 1..Len(out) :
               /\ out[i].ev = "files"
               /\ out[i].files =
                      generate_articulation_files(cvvc_map[key].wav_file,
                          ClipLength(cvvc_map[key].wav_file),
                          Deref(heap, cvvc_map[key].seg_info))
    /\ (pc = "aborted" /\ failure = "emit" /\ ~CompletionStarted) =>
           \A key \in DOMAIN cvvc_map :
               cvvc_map[key].seg_info # seg_info_list[seg_idx]
    /\ \A i \in 1..Len(out) :
           /\ out[i].ev = "alternative_vc" => out[i].alternative_vc \in DOMAIN cvvc_map
           /\ out[i].ev = "alternative_vr" =>
                  <<out[i].alternative_vr, "-">> \in DOMAIN cvvc_map

\* the emission of the second segment of a clip raised after the first
\* was recorded: its keys are not in cvvc_map
C19_SecondEmissionFailed ==
    /\ pc = "aborted"
    /\ failure = "emit"
    /\ ~CompletionStarted
    /\ seg_idx = 2
    /\ cvvc_map # <<>>
    /\ KeysOf(heap, seg_info_list[2]) # <<>>
    /\ \A k \in 1..Len(KeysOf(heap, seg_info_list[2])) :
           KeysOf(heap, seg_info_list[2])[k] \notin DOMAIN cvvc_map

====
